---- MODULE Spec2Model ----
(***************************************************************************)
(* A model of cloud_collector.py: the NEPSE market-hours oracle            *)
(* (is_market_open, get_market_schedule_info), the record normalizer       *)
(* (normalize_data) and the run driver (collect_single_run, main).         *)
(*                                                                         *)
(* Python strings are sequences of one-character strings, so that the key  *)
(* cleaning, the record identifiers and the time formats are computed.     *)
(* Python/JSON values are tagged records.                                  *)
(***************************************************************************)
EXTENDS Integers, Sequences, FiniteSets, TLC

VARIABLES
    pc,                     \* position of the process
    timestamp,              \* the zoned timestamp the operation works on
    oracle,                 \* what the schedule oracle answered for timestamp
    data,                   \* payload handed to normalize_data (normalizer specification)
    endpoint_name,          \* source name handed to normalize_data
    normalized,             \* outcome of normalize_data
    cursor,                 \* position of the for loop of collect_single_run in endpoints
    all_normalized_data,    \* collect_single_run: accumulated records
    successful_endpoints,   \* collect_single_run: endpoints that yielded records
    requests,               \* every HTTP request made so far, with its outcome
    files,                  \* files written under data/
    result,                 \* return value of collect_single_run
    exit_status             \* status main gave to sys.exit; -1 while running

vars == << pc, timestamp, oracle, data, endpoint_name, normalized, cursor,
           all_normalized_data, successful_endpoints, requests, files, result,
           exit_status >>

\* ------------------------------------------------------------------ bounds

\* Longest list payload handed to normalize_data in the normalizer specification.
MaxLen == 3

\* ------------------------------------------------------------------ text

UpperCase ==
    <<"A","B","C","D","E","F","G","H","I","J","K","L","M",
      "N","O","P","Q","R","S","T","U","V","W","X","Y","Z">>

LowerCase ==
    <<"a","b","c","d","e","f","g","h","i","j","k","l","m",
      "n","o","p","q","r","s","t","u","v","w","x","y","z">>

Digits == <<"0","1","2","3","4","5","6","7","8","9">>

\* The place of each upper-case letter in the alphabet.
UpperIndex ==
    [ c \in { UpperCase[i] : i \in 1..Len(UpperCase) } |->
        CHOOSE i \in 1..Len(UpperCase) : UpperCase[i] = c ]

\* str.lower() on one character.
LowerChar(c) == IF c \in DOMAIN UpperIndex THEN LowerCase[UpperIndex[c]] ELSE c

\* str.lower()
Lower(s) == [i \in 1..Len(s) |-> LowerChar(s[i])]

\* str.replace(old, new) for one-character old and new.
Replace(s, old, new) == [i \in 1..Len(s) |-> IF s[i] = old THEN new ELSE s[i]]

\* clean_key = str(key).lower().replace(' ', '_')
CleanKey(key) == Replace(Lower(key), " ", "_")

\* str(n) for a natural number.
RECURSIVE IntToStr(_)
IntToStr(n) ==
    IF n < 10 THEN << Digits[n + 1] >>
    ELSE IntToStr(n \div 10) \o << Digits[(n % 10) + 1] >>

\* Zero-padded decimal of the given width (%02d, %04d, %06d).
RECURSIVE Pad(_, _)
Pad(n, width) ==
    IF width = 0 THEN <<>>
    ELSE Pad(n \div 10, width - 1) \o << Digits[(n % 10) + 1] >>

\* ', '.join(parts)
RECURSIVE Join(_)
Join(parts) ==
    IF Len(parts) = 0 THEN <<>>
    ELSE IF Len(parts) = 1 THEN parts[1]
    ELSE parts[1] \o <<",", " ">> \o Join(Tail(parts))

\* ------------------------------------------------------------------ values

None == [tag |-> "null"]
Bool(b) == [tag |-> "bool", b |-> b]
Num(n) == [tag |-> "num", n |-> n]
Str(s) == [tag |-> "str", s |-> s]
List(xs) == [tag |-> "list", items |-> xs]
Dict(ps) == [tag |-> "dict", pairs |-> ps]

\* isinstance(x, list), isinstance(x, dict)
IsList(x) == x.tag = "list"
IsDict(x) == x.tag = "dict"

\* Python truth value: `if data`, `if not data`.
Truthy(x) ==
    CASE x.tag = "null" -> FALSE
      [] x.tag = "bool" -> x.b
      [] x.tag = "num"  -> x.n # 0
      [] x.tag = "str"  -> Len(x.s) > 0
      [] x.tag = "list" -> Len(x.items) > 0
      [] x.tag = "dict" -> Len(x.pairs) > 0

\* A dict is its (key, value) pairs in insertion order, the keys distinct.
HasKey(pairs, key) == \E i \in 1..Len(pairs) : pairs[i][1] = key

\* d[key]
Get(pairs, key) == pairs[CHOOSE i \in 1..Len(pairs) : pairs[i][1] = key][2]

\* d[key] = value: overwrite in place, or append a new key.
Set(pairs, key, value) ==
    IF HasKey(pairs, key)
    THEN [i \in 1..Len(pairs) |->
            IF pairs[i][1] = key THEN << key, value >> ELSE pairs[i]]
    ELSE Append(pairs, << key, value >>)

\* ------------------------------------------------------------------ time

\* datetime.replace(hour=h, minute=0, second=0, microsecond=0)
ReplaceTime(time, h) ==
    [time EXCEPT !.hour = h, !.minute = 0, !.second = 0, !.microsecond = 0]

\* The fields datetime compares, most significant first.
Fields(time) ==
    << time.year, time.month, time.day, time.hour, time.minute, time.second,
       time.microsecond >>

\* a <= b on two datetimes of the same zone: lexicographic on the fields.
RECURSIVE TupleLE(_, _)
TupleLE(a, b) ==
    IF Len(a) = 0 THEN TRUE
    ELSE IF a[1] # b[1] THEN a[1] < b[1]
    ELSE TupleLE(Tail(a), Tail(b))

DatetimeLE(a, b) == TupleLE(Fields(a), Fields(b))

IsLeap(y) == (y % 4 = 0) /\ ((y % 100 # 0) \/ (y % 400 = 0))

DaysInMonth(y, m) ==
    IF m = 2 THEN (IF IsLeap(y) THEN 29 ELSE 28)
    ELSE IF m \in {4, 6, 9, 11} THEN 30 ELSE 31

RECURSIVE DaysBeforeMonth(_, _)
DaysBeforeMonth(y, m) ==
    IF m = 1 THEN 0 ELSE DaysBeforeMonth(y, m - 1) + DaysInMonth(y, m - 1)

\* date.toordinal(): 1 is 0001-01-01.
ToOrdinal(time) ==
    LET y == time.year - 1
    IN  y * 365 + (y \div 4) - (y \div 100) + (y \div 400)
        + DaysBeforeMonth(time.year, time.month) + time.day

\* datetime.weekday(): Monday is 0, Sunday is 6.
Weekday(time) == (ToOrdinal(time) + 6) % 7

\* timestamp.strftime('%Y-%m-%d %H:%M:%S')
StrftimeDateTime(time) ==
    Pad(time.year, 4) \o <<"-">> \o Pad(time.month, 2) \o <<"-">> \o Pad(time.day, 2)
    \o <<" ">> \o Pad(time.hour, 2) \o <<":">> \o Pad(time.minute, 2)
    \o <<":">> \o Pad(time.second, 2)

S_utcoffset == <<"+","0","5",":","4","5">>

\* timestamp.isoformat() in Asia/Kathmandu.
IsoFormat(time) ==
    Pad(time.year, 4) \o <<"-">> \o Pad(time.month, 2) \o <<"-">> \o Pad(time.day, 2)
    \o <<"T">> \o Pad(time.hour, 2) \o <<":">> \o Pad(time.minute, 2)
    \o <<":">> \o Pad(time.second, 2)
    \o (IF time.microsecond # 0 THEN <<".">> \o Pad(time.microsecond, 6) ELSE <<>>)
    \o S_utcoffset

\* A moment of the week 2024-01-01 (a Monday) to 2024-01-07 (a Sunday).
At(d, h, m, sec, us) ==
    [ year |-> 2024, month |-> 1, day |-> d, hour |-> h, minute |-> m,
      second |-> sec, microsecond |-> us ]

\* ------------------------------------------------------------------ schedule oracle

\* A slip that leaves out the weekday checks: every day trades 11 AM to 3 PM.
is_market_open_every_day(time) ==
    DatetimeLE(ReplaceTime(time, 11), time) /\ DatetimeLE(time, ReplaceTime(time, 15))

\* A slip that closes the Friday window at 3 PM like the regular days.
is_market_open_friday_late(time) ==
    LET weekday == Weekday(time)
    IN  IF weekday = 5 THEN FALSE
        ELSE IF weekday \in {4, 6, 0, 1, 2, 3}
        THEN DatetimeLE(ReplaceTime(time, 11), time)
             /\ DatetimeLE(time, ReplaceTime(time, 15))
        ELSE FALSE

is_market_open(time) ==
    LET weekday == Weekday(time)
    IN  IF weekday = 5 THEN FALSE
        ELSE IF weekday = 4
        THEN DatetimeLE(ReplaceTime(time, 11), time)
             /\ DatetimeLE(time, ReplaceTime(time, 13))
        ELSE IF weekday \in {6, 0, 1, 2, 3}
        THEN DatetimeLE(ReplaceTime(time, 11), time)
             /\ DatetimeLE(time, ReplaceTime(time, 15))
        ELSE FALSE

day_names ==
    << <<"M","o","n","d","a","y">>,
       <<"T","u","e","s","d","a","y">>,
       <<"W","e","d","n","e","s","d","a","y">>,
       <<"T","h","u","r","s","d","a","y">>,
       <<"F","r","i","d","a","y">>,
       <<"S","a","t","u","r","d","a","y">>,
       <<"S","u","n","d","a","y">> >>

S_closed == <<" ","-"," ","M","a","r","k","e","t"," ","C","l","o","s","e","d">>

S_friday_hours ==
    <<" ","-"," ","T","r","a","d","i","n","g"," ","H","o","u","r","s",":"," ",
      "1","1",":","0","0"," ","A","M"," ","-"," ","1",":","0","0"," ","P","M",
      " ","N","P","T">>

S_regular_hours ==
    <<" ","-"," ","T","r","a","d","i","n","g"," ","H","o","u","r","s",":"," ",
      "1","1",":","0","0"," ","A","M"," ","-"," ","3",":","0","0"," ","P","M",
      " ","N","P","T">>

get_market_schedule_info(time) ==
    LET weekday == Weekday(time)
    IN  IF weekday = 5 THEN day_names[weekday + 1] \o S_closed
        ELSE IF weekday = 4 THEN day_names[weekday + 1] \o S_friday_hours
        ELSE IF weekday \in {6, 0, 1, 2, 3} THEN day_names[weekday + 1] \o S_regular_hours
        ELSE day_names[weekday + 1] \o S_closed

\* ------------------------------------------------------------------ record normalizer

K_collection_timestamp == <<"c","o","l","l","e","c","t","i","o","n","_","t","i","m","e","s","t","a","m","p">>
K_collection_time_npt == <<"c","o","l","l","e","c","t","i","o","n","_","t","i","m","e","_","n","p","t">>
K_data_source == <<"d","a","t","a","_","s","o","u","r","c","e">>
K_record_id == <<"r","e","c","o","r","d","_","i","d">>
K_market_open == <<"m","a","r","k","e","t","_","o","p","e","n">>
K_collection_method == <<"c","o","l","l","e","c","t","i","o","n","_","m","e","t","h","o","d">>
K_market_schedule == <<"m","a","r","k","e","t","_","s","c","h","e","d","u","l","e">>

S_cloud_automated == <<"c","l","o","u","d","_","a","u","t","o","m","a","t","e","d">>
S_summary == <<"s","u","m","m","a","r","y">>

\* A slip that asks the oracle about the clock at the time the record is built, a
\* minute into the run, and not about the run timestamp.
MetadataRecord_clock_now(source, record_id, time) ==
    LET now == [time EXCEPT !.minute = time.minute + 1]
    IN  << << K_collection_timestamp, Str(IsoFormat(time)) >>,
           << K_collection_time_npt, Str(StrftimeDateTime(time)) >>,
           << K_data_source, Str(source) >>,
           << K_record_id, Str(record_id) >>,
           << K_market_open, Bool(is_market_open(now)) >>,
           << K_collection_method, Str(S_cloud_automated) >>,
           << K_market_schedule, Str(get_market_schedule_info(now)) >> >>

\* The metadata base record: the dict literal of normalize_data.
MetadataRecord(source, record_id, time) ==
    << << K_collection_timestamp, Str(IsoFormat(time)) >>,
       << K_collection_time_npt, Str(StrftimeDateTime(time)) >>,
       << K_data_source, Str(source) >>,
       << K_record_id, Str(record_id) >>,
       << K_market_open, Bool(is_market_open(time)) >>,
       << K_collection_method, Str(S_cloud_automated) >>,
       << K_market_schedule, Str(get_market_schedule_info(time)) >> >>

\* A slip that keeps a field already present, so that the metadata wins.
RECURSIVE MergePayload_keep_existing(_, _)
MergePayload_keep_existing(normalized_record, pairs) ==
    IF Len(pairs) = 0 THEN normalized_record
    ELSE LET clean_key == CleanKey(pairs[1][1])
         IN  MergePayload_keep_existing(
                 IF HasKey(normalized_record, clean_key) THEN normalized_record
                 ELSE Set(normalized_record, clean_key, pairs[1][2]),
                 Tail(pairs))

\* for key, value in record.items(): normalized_record[clean_key] = value
RECURSIVE MergePayload(_, _)
MergePayload(normalized_record, pairs) ==
    IF Len(pairs) = 0 THEN normalized_record
    ELSE MergePayload(Set(normalized_record, CleanKey(pairs[1][1]), pairs[1][2]),
                      Tail(pairs))

\* The outcome of a call: the value returned, or an exception raised.
Returned(records) == [ raised |-> FALSE, records |-> records ]
Raised == [ raised |-> TRUE, records |-> << >> ]

\* A slip that numbers the records from 0, as enumerate does.
NormalizeElement_zero_based(record, i, source, time) ==
    IF IsDict(record)
    THEN Returned(<< MergePayload(
             MetadataRecord(source, source \o <<"_">> \o IntToStr(i), time),
             record.pairs) >>)
    ELSE Returned(<< >>)

\* The body of the for loop over a list payload; i is enumerate's 0-based index.
NormalizeElement(record, i, source, time) ==
    IF IsDict(record)
    THEN Returned(<< MergePayload(
             MetadataRecord(source, source \o <<"_">> \o IntToStr(i + 1), time),
             record.pairs) >>)
    ELSE Returned(<< >>)

\* for i, record in enumerate(data), from index i on; an exception ends the loop.
RECURSIVE NormalizeList(_, _, _, _)
NormalizeList(items, i, source, time) ==
    IF i >= Len(items) THEN Returned(<< >>)
    ELSE LET head == NormalizeElement(items[i + 1], i, source, time)
             rest == NormalizeList(items, i + 1, source, time)
         IN  IF head.raised \/ rest.raised THEN Raised
             ELSE Returned(head.records \o rest.records)

\* A slip that leaves out the `if not data` early return.
normalize_data_no_early_return(payload, source, time) ==
    IF IsList(payload) THEN NormalizeList(payload.items, 0, source, time)
    ELSE IF IsDict(payload)
    THEN Returned(<< MergePayload(
             MetadataRecord(source, source \o <<"_">> \o S_summary, time),
             payload.pairs) >>)
    ELSE Returned(<< >>)

\* A slip that returns early from the loop at the first element that is no mapping.
normalize_data_stop_at_non_mapping(payload, source, time) ==
    IF ~Truthy(payload) THEN Returned(<< >>)
    ELSE IF IsList(payload)
    THEN LET bad == { i \in 1..Len(payload.items) : ~IsDict(payload.items[i]) }
             stop == IF bad = {} THEN Len(payload.items)
                     ELSE (CHOOSE i \in bad : \A k \in bad : i <= k) - 1
         IN  NormalizeList(SubSeq(payload.items, 1, stop), 0, source, time)
    ELSE IF IsDict(payload)
    THEN Returned(<< MergePayload(
             MetadataRecord(source, source \o <<"_">> \o S_summary, time),
             payload.pairs) >>)
    ELSE Returned(<< >>)

normalize_data(payload, source, time) ==
    IF ~Truthy(payload) THEN Returned(<< >>)
    ELSE IF IsList(payload) THEN NormalizeList(payload.items, 0, source, time)
    ELSE IF IsDict(payload)
    THEN Returned(<< MergePayload(
             MetadataRecord(source, source \o <<"_">> \o S_summary, time),
             payload.pairs) >>)
    ELSE Returned(<< >>)

\* ------------------------------------------------------------------ payloads

R_A == <<"A">>
R_B == <<"B">>
R_LastTradedPrice == <<"L","a","s","t"," ","T","r","a","d","e","d"," ","P","r","i","c","e">>
R_TotalTurnover == <<"T","o","t","a","l","T","u","r","n","o","v","e","r">>
R_DataSource == <<"D","a","t","a"," ","S","o","u","r","c","e">>
R_RecordID == <<"R","e","c","o","r","d"," ","I","D">>
R_MarketOpen == <<"M","a","r","k","e","t"," ","O","p","e","n">>
V_spoofed == <<"s","p","o","o","f","e","d">>
V_not_a_mapping == <<"n","o","t","-","a","-","m","a","p","p","i","n","g">>
V_X == <<"X">>
V_x9 == <<"x","9">>

\* Mappings as the endpoints return them, and mappings whose keys clean to the
\* name of a metadata field or to one another.
SampleMappings ==
    { Dict(<< >>),
      Dict(<< << R_A, Num(1) >> >>),
      Dict(<< << R_LastTradedPrice, Num(100) >> >>),
      Dict(<< << R_TotalTurnover, Num(5000) >> >>),
      Dict(<< << K_data_source, Str(V_spoofed) >> >>),
      Dict(<< << R_RecordID, Str(V_x9) >>, << R_B, Num(2) >> >>),
      Dict(<< << R_MarketOpen, Bool(FALSE) >>, << K_market_schedule, Str(V_X) >> >>),
      Dict(<< << R_DataSource, Num(1) >>, << K_data_source, None >> >>) }

\* JSON values that are no mapping and no list.
SampleScalars ==
    { None, Bool(FALSE), Bool(TRUE), Num(0), Num(7), Str(<< >>), Str(V_not_a_mapping) }

\* What a list payload may hold.
SampleElements == SampleMappings \cup { Str(V_not_a_mapping) }

SampleLists ==
    { List(xs) : xs \in UNION { [1..n -> SampleElements] : n \in 0..MaxLen } }

Payloads == SampleScalars \cup SampleMappings \cup SampleLists

\* ------------------------------------------------------------------ oracle specification

\* One civil week, 2024-01-01 (a Monday) to 2024-01-07, every minute of each day,
\* at the seconds and microseconds next to a window's ends.
OracleTimestamps ==
    [ year : {2024}, month : {1}, day : 1..7, hour : 0..23, minute : 0..59,
      second : {0, 1, 59}, microsecond : {0, 1, 999999} ]

Idle == << >>

OracleInit ==
    /\ pc = "oracle_call"
    /\ timestamp \in OracleTimestamps
    /\ oracle = None
    /\ data = None
    /\ endpoint_name = Idle
    /\ normalized = None
    /\ cursor = 0
    /\ all_normalized_data = << >>
    /\ successful_endpoints = << >>
    /\ requests = << >>
    /\ files = << >>
    /\ result = None
    /\ exit_status = -1

\* The caller asks the oracle about its timestamp.
Classify ==
    /\ pc = "oracle_call"
    /\ pc' = "oracle_done"
    /\ oracle' = [ tag |-> "oracle",
                   open |-> is_market_open(timestamp),
                   description |-> get_market_schedule_info(timestamp) ]
    /\ UNCHANGED << timestamp, data, endpoint_name, normalized, cursor,
                    all_normalized_data, successful_endpoints, requests, files,
                    result, exit_status >>

OracleNext == Classify

OracleSpec == OracleInit /\ [][OracleNext]_vars

\* Whole seconds since midnight; the microsecond is the fraction past them.
SecondOfDay(time) == (time.hour * 60 + time.minute) * 60 + time.second

Clock(h, m) == (h * 60 + m) * 60

\* open <= time of day <= close, the ends being whole minutes.
InWindow(time, open, close) ==
    /\ open <= SecondOfDay(time)
    /\ \/ SecondOfDay(time) < close
       \/ SecondOfDay(time) = close /\ time.microsecond = 0

\* The trading windows as the schedule states them: Sunday to Thursday 11:00:00 to
\* 15:00:00, Friday 11:00:00 to 13:00:00, both ends inclusive, nothing on Saturday.
TradingWindow(time) ==
    LET name == day_names[Weekday(time) + 1]
        regular == name \in { day_names[7], day_names[1], day_names[2],
                              day_names[3], day_names[4] }
        friday == name = day_names[5]
    IN  \/ regular /\ InWindow(time, Clock(11, 0), Clock(15, 0))
        \/ friday /\ InWindow(time, Clock(11, 0), Clock(13, 0))

\* C1: is_market_open(t) is true exactly when t falls on Sunday..Thursday with
\* 11:00:00 <= time of day <= 15:00:00, or on Friday with 11:00:00 <= time of day
\* <= 13:00:00, both ends inclusive; it is false on Saturday and at every other time.
C1_MarketOpenWindows ==
    pc = "oracle_done" => (oracle.open <=> TradingWindow(timestamp))

\* The oracle answered "open" for a Friday at exactly 13:00:00, the inclusive close.
C1_Witness ==
    /\ pc = "oracle_done"
    /\ Weekday(timestamp) = 4
    /\ SecondOfDay(timestamp) = Clock(13, 0)
    /\ timestamp.microsecond = 0
    /\ oracle.open

\* ------------------------------------------------------------------ normalizer specification

\* A Friday at the inclusive close, and a Saturday with microseconds.
NormalizeTimestamps == { At(5, 13, 0, 0, 0), At(6, 12, 30, 15, 250) }

\* The source names of the spec's examples: the summary and the live_market endpoints.
NormalizeSources == { S_summary, <<"l","i","v","e","_","m","a","r","k","e","t">> }

NormalizeInit ==
    /\ pc = "normalize_call"
    /\ timestamp \in NormalizeTimestamps
    /\ oracle = None
    /\ data \in Payloads
    /\ endpoint_name \in NormalizeSources
    /\ normalized = None
    /\ cursor = 0
    /\ all_normalized_data = << >>
    /\ successful_endpoints = << >>
    /\ requests = << >>
    /\ files = << >>
    /\ result = None
    /\ exit_status = -1

\* normalize_data(data, endpoint_name, timestamp)
Normalize ==
    /\ pc = "normalize_call"
    /\ pc' = "normalize_done"
    /\ normalized' = normalize_data(data, endpoint_name, timestamp)
    /\ UNCHANGED << timestamp, oracle, data, endpoint_name, cursor,
                    all_normalized_data, successful_endpoints, requests, files,
                    result, exit_status >>

NormalizeNext == Normalize

NormalizeSpec == NormalizeInit /\ [][NormalizeNext]_vars

\* The 1-based positions of the mappings of a list, and the j-th of them.
MappingPositions(items) == { i \in 1..Len(items) : IsDict(items[i]) }

NthMapping(items, j) ==
    CHOOSE i \in MappingPositions(items) :
        Cardinality({ k \in MappingPositions(items) : k <= i }) = j

\* Whether some key of the mapping cleans to clean_key, and the value of the last one.
Cleans(pairs, clean_key) == { i \in 1..Len(pairs) : CleanKey(pairs[i][1]) = clean_key }

LastValue(pairs, clean_key) ==
    pairs[CHOOSE i \in Cleans(pairs, clean_key) :
              \A k \in Cleans(pairs, clean_key) : k <= i][2]

\* The statement of C2 as the spec words it: a list payload gives as many records
\* as it has entries, a single object gives 1, an empty or missing payload gives 0.
C2_CountEqualsEntries ==
    pc = "normalize_done" =>
        Len(normalized.records) =
            IF IsList(data) THEN Len(data.items)
            ELSE IF IsDict(data) /\ Truthy(data) THEN 1
            ELSE 0

\* C2 (amended): a list payload gives as many records as it has entries that are
\* mappings, a non-empty single object gives exactly 1, and every other payload
\* (missing, empty, scalar) gives 0.
C2_CountEqualsMappings ==
    pc = "normalize_done" =>
        Len(normalized.records) =
            IF IsList(data) THEN Cardinality(MappingPositions(data.items))
            ELSE IF IsDict(data) /\ Truthy(data) THEN 1
            ELSE 0

\* A list of three entries, the middle one no mapping, gave two records.
C2_Witness ==
    /\ pc = "normalize_done"
    /\ IsList(data)
    /\ Len(data.items) = 3
    /\ MappingPositions(data.items) = {1, 3}
    /\ Len(normalized.records) = 2

\* The record of the j-th mapping of a list payload comes from that mapping: it
\* holds every cleaned key of it.
FromMapping(record, mapping) ==
    \A i \in 1..Len(mapping.pairs) : HasKey(record, CleanKey(mapping.pairs[i][1]))

PositionalId(position) == Str(endpoint_name \o <<"_">> \o IntToStr(position))

\* The statement of C3 as the spec words it: one record per mapping of the list, in
\* input order, none for another element, nothing raised, and the record of the
\* mapping at 1-based position i has record_id "{source}_{i}".
C3_PositionalIds ==
    pc = "normalize_done" /\ IsList(data) =>
        /\ ~normalized.raised
        /\ Len(normalized.records) = Cardinality(MappingPositions(data.items))
        /\ \A j \in 1..Len(normalized.records) :
             /\ FromMapping(normalized.records[j], data.items[NthMapping(data.items, j)])
             /\ Get(normalized.records[j], K_record_id)
                  = PositionalId(NthMapping(data.items, j))

\* C3 (amended): as above, except that a mapping holding a key whose cleaned name is
\* record_id keeps the value of its last such key as record_id.
C3_PositionalIdsUnlessShadowed ==
    pc = "normalize_done" /\ IsList(data) =>
        /\ ~normalized.raised
        /\ Len(normalized.records) = Cardinality(MappingPositions(data.items))
        /\ \A j \in 1..Len(normalized.records) :
             LET position == NthMapping(data.items, j)
                 pairs == data.items[position].pairs
             IN  /\ FromMapping(normalized.records[j], data.items[position])
                 /\ Get(normalized.records[j], K_record_id)
                      = IF Cleans(pairs, K_record_id) # {}
                        THEN LastValue(pairs, K_record_id)
                        ELSE PositionalId(position)

\* [mapping, string, mapping] gave the identifiers source_1 and source_3.
C3_Witness ==
    /\ pc = "normalize_done"
    /\ IsList(data)
    /\ Len(data.items) = 3
    /\ MappingPositions(data.items) = {1, 3}
    /\ Len(normalized.records) = 2
    /\ Get(normalized.records[1], K_record_id) = PositionalId(1)
    /\ Get(normalized.records[2], K_record_id) = PositionalId(3)

MetadataKeys ==
    << K_collection_timestamp, K_collection_time_npt, K_data_source, K_record_id,
       K_market_open, K_collection_method, K_market_schedule >>

\* How many mappings the payload holds, and the j-th of them.
NumSources ==
    IF IsList(data) THEN Cardinality(MappingPositions(data.items))
    ELSE IF IsDict(data) /\ Truthy(data) THEN 1
    ELSE 0

SourceMapping(j) ==
    IF IsList(data) THEN data.items[NthMapping(data.items, j)] ELSE data

\* C4: the metadata fields are written first and the payload fields second: the
\* metadata keys lead every record in the order of the literal, and a metadata key
\* that is the cleaned name of a payload key holds the payload's value (of the last
\* such key), not the metadata value.
C4_PayloadShadowsMetadata ==
    pc = "normalize_done" =>
        /\ Len(normalized.records) = NumSources
        /\ \A j \in 1..Len(normalized.records) :
             \A m \in 1..Len(MetadataKeys) :
                /\ normalized.records[j][m][1] = MetadataKeys[m]
                /\ Cleans(SourceMapping(j).pairs, MetadataKeys[m]) # {} =>
                      Get(normalized.records[j], MetadataKeys[m])
                        = LastValue(SourceMapping(j).pairs, MetadataKeys[m])

\* [{"data_source": "spoofed"}] with source "summary" gave data_source = "spoofed".
C4_Witness ==
    /\ pc = "normalize_done"
    /\ endpoint_name = S_summary
    /\ data = List(<< Dict(<< << K_data_source, Str(V_spoofed) >> >>) >>)
    /\ Len(normalized.records) = 1
    /\ Get(normalized.records[1], K_data_source) = Str(V_spoofed)

\* C8: normalize_data raises for no payload, and gives the empty sequence for a
\* payload that is null, empty (an empty list, object or string, zero, false), a
\* scalar, or a list holding no mapping.
C8_EmptyNotError ==
    pc = "normalize_done" =>
        /\ ~normalized.raised
        /\ ( \/ ~Truthy(data)
             \/ ~IsList(data) /\ ~IsDict(data)
             \/ IsList(data) /\ MappingPositions(data.items) = {} )
           => normalized.records = << >>

\* A list holding only entries that are no mapping gave no record and no error.
C8_Witness ==
    /\ pc = "normalize_done"
    /\ IsList(data)
    /\ Len(data.items) = 2
    /\ MappingPositions(data.items) = {}
    /\ ~normalized.raised
    /\ normalized.records = << >>

\* ------------------------------------------------------------------ run driver

\* self.endpoints: (name, path) in the order of the dict literal.
endpoints ==
    << << <<"f","l","o","o","r","s","h","e","e","t">>,
          <<"/","F","l","o","o","r","s","h","e","e","t">> >>,
       << <<"p","r","i","c","e","_","v","o","l","u","m","e">>,
          <<"/","P","r","i","c","e","V","o","l","u","m","e">> >>,
       << <<"l","i","v","e","_","m","a","r","k","e","t">>,
          <<"/","L","i","v","e","M","a","r","k","e","t">> >>,
       << <<"s","u","m","m","a","r","y">>,
          <<"/","S","u","m","m","a","r","y">> >>,
       << <<"t","o","p","_","g","a","i","n","e","r","s">>,
          <<"/","T","o","p","G","a","i","n","e","r","s">> >>,
       << <<"t","o","p","_","l","o","s","e","r","s">>,
          <<"/","T","o","p","L","o","s","e","r","s">> >>,
       << <<"n","e","p","s","e","_","i","n","d","e","x">>,
          <<"/","N","e","p","s","e","I","n","d","e","x">> >>,
       << <<"s","u","p","p","l","y","_","d","e","m","a","n","d">>,
          <<"/","S","u","p","p","l","y","D","e","m","a","n","d">> >> >>

S_root == <<"/">>
S_data_dir == <<"d","a","t","a","/">>
S_csv_prefix == <<"n","e","p","s","e","_","c","l","o","u","d","_">>
S_csv_suffix == <<".","c","s","v">>
S_summary_prefix == <<"c","l","o","u","d","_","s","u","m","m","a","r","y","_">>
S_summary_suffix == <<".","j","s","o","n">>
S_NPT == <<" ","N","P","T">>
K_total_endpoints_collected == <<"t","o","t","a","l","_","e","n","d","p","o","i","n","t","s","_","c","o","l","l","e","c","t","e","d">>
K_endpoints_collected == <<"e","n","d","p","o","i","n","t","s","_","c","o","l","l","e","c","t","e","d">>
K_github_run_number == <<"g","i","t","h","u","b","_","r","u","n","_","n","u","m","b","e","r">>

\* timestamp.strftime('%Y%m%d_%H%M%S')
StrftimeCompact(time) ==
    Pad(time.year, 4) \o Pad(time.month, 2) \o Pad(time.day, 2) \o <<"_">>
    \o Pad(time.hour, 2) \o Pad(time.minute, 2) \o Pad(time.second, 2)

\* What session.get gives: an exception (timeout, refused connection), or a response
\* with a status code and a body, the body a JSON value or text that is no JSON.
RequestException == [ tag |-> "exception" ]
Malformed == [ tag |-> "malformed" ]
HttpResponse(status_code, body) ==
    [ tag |-> "response", status_code |-> status_code, body |-> body ]

\* response.raise_for_status() raises for a 4xx or a 5xx status.
RaisesForStatus(response) == response.status_code >= 400 /\ response.status_code < 600

\* test_api_connection: True for a 200 response, False for another status or an exception.
test_api_connection(response) ==
    response.tag = "response" /\ response.status_code = 200

\* The outcome of a call that returns one value.
Value(v) == [ raised |-> FALSE, value |-> v ]
Propagated == [ raised |-> TRUE, value |-> None ]

\* A slip that lets the exception of a failed fetch out of fetch_endpoint_data.
fetch_endpoint_data_no_except(response) ==
    IF response.tag = "exception" THEN Propagated
    ELSE IF RaisesForStatus(response) THEN Propagated
    ELSE IF response.body = Malformed THEN Propagated
    ELSE Value(response.body)

\* fetch_endpoint_data: the parsed body, or None when anything raised.
fetch_endpoint_data(response) ==
    IF response.tag = "exception" THEN Value(None)
    ELSE IF RaisesForStatus(response) THEN Value(None)
    ELSE IF response.body = Malformed THEN Value(None)
    ELSE Value(response.body)

\* df['data_source'].value_counts().to_dict(): the count of each value of the
\* column, missing values (None) left out.
ValueCounts(records, key) ==
    [ v \in { Get(records[i], key) : i \in 1..Len(records) } \ { None } |->
        Cardinality({ i \in 1..Len(records) : Get(records[i], key) = v }) ]

\* The columns of pd.DataFrame(records): the keys in the order first seen.
RECURSIVE Columns(_, _)
Columns(records, seen) ==
    IF Len(records) = 0 THEN seen
    ELSE LET row == records[1]
             fresh == SelectSeq([ i \in 1..Len(row) |-> row[i][1] ],
                                LAMBDA k : \A j \in 1..Len(seen) : seen[j] # k)
         IN  Columns(Tail(records), seen \o fresh)

\* df[column] = value: a new last column, or an existing column overwritten.
WithColumn(columns, column) ==
    IF \E j \in 1..Len(columns) : columns[j] = column THEN columns
    ELSE Append(columns, column)

\* A slip that reports a run without data as a failure.
exit_code_error_without_data(run_result) == IF Truthy(run_result) THEN 0 ELSE 1

\* main: sys.exit(0) on both branches of `if result`.
exit_code(run_result) == IF Truthy(run_result) THEN 0 ELSE 0

\* The JSON bodies the API answers with in the runs explored. A table endpoint
\* answers with a list: one whose second entry is no mapping and whose third shadows
\* market_open and market_schedule, or one holding no mapping at all.
TablePayloads ==
    { List(<< Dict(<< << R_A, Num(1) >> >>),
              Str(V_not_a_mapping),
              Dict(<< << R_MarketOpen, Bool(FALSE) >>,
                      << K_market_schedule, Str(V_X) >> >>) >>),
      List(<< Str(V_not_a_mapping) >>) }

\* The summary and nepse_index endpoints answer with a single object: a plain one,
\* or one that shadows data_source.
ObjectPayloads ==
    { Dict(<< << R_TotalTurnover, Num(5000) >> >>),
      Dict(<< << K_data_source, Str(V_spoofed) >> >>) }

ObjectEndpoints == { endpoints[4][1], endpoints[7][1] }

RunPayloads(name) == IF name \in ObjectEndpoints THEN ObjectPayloads ELSE TablePayloads

ConnectionResponses ==
    { RequestException, HttpResponse(200, None), HttpResponse(503, None) }

FetchResponses(name) ==
    { RequestException, HttpResponse(500, None), HttpResponse(404, None),
      HttpResponse(200, Malformed) }
    \cup { HttpResponse(200, body) : body \in RunPayloads(name) }

\* What datetime.now(NEPAL_TZ) gives at the start of a run: the inclusive Friday
\* close and the microsecond after it, a Saturday, the Sunday opening, and a
\* Thursday one second after the close.
RunTimestamps ==
    { At(5, 13, 0, 0, 0), At(5, 13, 0, 0, 1), At(6, 12, 0, 0, 0),
      At(7, 11, 0, 0, 0), At(4, 15, 0, 1, 0) }

Init ==
    /\ pc = "main"
    /\ timestamp = None
    /\ oracle = None
    /\ data = None
    /\ endpoint_name = Idle
    /\ normalized = None
    /\ cursor = 0
    /\ all_normalized_data = << >>
    /\ successful_endpoints = << >>
    /\ requests = << >>
    /\ files = << >>
    /\ result = None
    /\ exit_status = -1

\* collect_single_run, first lines: read the clock, log the schedule of the day.
Start ==
    /\ pc = "main"
    /\ \E now \in RunTimestamps :
         /\ timestamp' = now
         /\ oracle' = [ tag |-> "oracle",
                        description |-> get_market_schedule_info(now) ]
    /\ pc' = "gate"
    /\ UNCHANGED << data, endpoint_name, normalized, cursor, all_normalized_data,
                    successful_endpoints, requests, files, result, exit_status >>

\* if not self.is_market_open(timestamp): return None
Gate ==
    /\ pc = "gate"
    /\ oracle' = [ tag |-> "oracle",
                   open |-> is_market_open(timestamp),
                   description |-> oracle.description ]
    /\ IF ~is_market_open(timestamp)
       THEN pc' = "returned" /\ result' = None
       ELSE pc' = "connect" /\ UNCHANGED result
    /\ UNCHANGED << timestamp, data, endpoint_name, normalized, cursor,
                    all_normalized_data, successful_endpoints, requests, files,
                    exit_status >>

\* if not self.test_api_connection(): return None; else the two lists start empty.
Connect ==
    /\ pc = "connect"
    /\ \E response \in ConnectionResponses :
         /\ requests' = Append(requests,
                [ url |-> S_root, returned |-> Bool(test_api_connection(response)) ])
         /\ IF ~test_api_connection(response)
            THEN /\ pc' = "returned"
                 /\ result' = None
                 /\ UNCHANGED << cursor, all_normalized_data, successful_endpoints >>
            ELSE /\ pc' = "collect"
                 /\ cursor' = 1
                 /\ all_normalized_data' = << >>
                 /\ successful_endpoints' = << >>
                 /\ UNCHANGED result
    /\ UNCHANGED << timestamp, oracle, data, endpoint_name, normalized, files,
                    exit_status >>

\* One turn of the for loop over self.endpoints.items().
Collect ==
    /\ pc = "collect"
    /\ cursor <= Len(endpoints)
    /\ \E response \in FetchResponses(endpoints[cursor][1]) :
         LET name == endpoints[cursor][1]
             fetched == fetch_endpoint_data(response)
             raw_data == fetched.value
             normalized_data ==
                 IF fetched.raised THEN Raised
                 ELSE IF Truthy(raw_data) THEN normalize_data(raw_data, name, timestamp)
                 ELSE Returned(<< >>)
         IN  /\ requests' = Append(requests,
                    [ url |-> endpoints[cursor][2], returned |-> raw_data ])
             /\ IF normalized_data.raised
                THEN /\ pc' = "crashed"
                     /\ UNCHANGED << cursor, all_normalized_data, successful_endpoints >>
                ELSE /\ pc' = "collect"
                     /\ cursor' = cursor + 1
                     /\ IF Len(normalized_data.records) > 0
                        THEN /\ all_normalized_data' =
                                    all_normalized_data \o normalized_data.records
                             /\ successful_endpoints' = Append(successful_endpoints, name)
                        ELSE UNCHANGED << all_normalized_data, successful_endpoints >>
    /\ UNCHANGED << timestamp, oracle, data, endpoint_name, normalized, files, result,
                    exit_status >>

\* if not all_normalized_data: return None
NoData ==
    /\ pc = "collect"
    /\ cursor > Len(endpoints)
    /\ Len(all_normalized_data) = 0
    /\ pc' = "returned"
    /\ result' = None
    /\ UNCHANGED << timestamp, oracle, data, endpoint_name, normalized, cursor,
                    all_normalized_data, successful_endpoints, requests, files,
                    exit_status >>

filename == S_csv_prefix \o StrftimeCompact(timestamp) \o S_csv_suffix
filepath == S_data_dir \o filename
summary_file ==
    S_data_dir \o S_summary_prefix \o StrftimeCompact(timestamp) \o S_summary_suffix

\* The CSV file: the columns of the frame with the three run columns, and its rows.
csv ==
    [ path |-> filepath,
      columns |-> WithColumn(WithColumn(WithColumn(
                      Columns(all_normalized_data, << >>),
                      K_total_endpoints_collected), K_endpoints_collected),
                      K_github_run_number),
      rows |-> Len(all_normalized_data),
      endpoints_collected |-> Join(successful_endpoints) ]

\* The summary dict of collect_single_run.
summary ==
    [ path |-> summary_file,
      collection_time |-> IsoFormat(timestamp),
      collection_time_npt |-> StrftimeDateTime(timestamp) \o S_NPT,
      day_of_week |-> day_names[Weekday(timestamp) + 1],
      market_schedule |-> get_market_schedule_info(timestamp),
      total_records |-> Len(all_normalized_data),
      successful_endpoints |-> successful_endpoints,
      records_by_source |-> ValueCounts(all_normalized_data, K_data_source),
      filename |-> filename,
      market_open |-> TRUE,
      collection_method |-> S_cloud_automated ]

\* The try block: write the CSV, then the summary; an exception at either write
\* (a full disk, a missing directory) is logged and the run returns None.
Save ==
    /\ pc = "collect"
    /\ cursor > Len(endpoints)
    /\ Len(all_normalized_data) > 0
    /\ \E sink \in { "saved", "csv_error", "json_error" } :
         /\ files' = CASE sink = "saved" -> << csv, summary >>
                       [] sink = "json_error" -> << csv >>
                       [] sink = "csv_error" -> << >>
         /\ result' = IF sink = "saved" THEN Str(filepath) ELSE None
    /\ pc' = "returned"
    /\ UNCHANGED << timestamp, oracle, data, endpoint_name, normalized, cursor,
                    all_normalized_data, successful_endpoints, requests, exit_status >>

\* main: sys.exit(0) after collect_single_run returned; an exception that left
\* collect_single_run ends the interpreter with status 1.
Exit ==
    /\ pc \in { "returned", "crashed" }
    /\ exit_status' = IF pc = "crashed" THEN 1 ELSE exit_code(result)
    /\ pc' = "exited"
    /\ UNCHANGED << timestamp, oracle, data, endpoint_name, normalized, cursor,
                    all_normalized_data, successful_endpoints, requests, files, result >>

Next == Start \/ Gate \/ Connect \/ Collect \/ NoData \/ Save \/ Exit

Spec == Init /\ [][Next]_vars

\* ------------------------------------------------------------------ claims about a run

\* The requests to the endpoints, after the connection test.
FetchAttempts == IF Len(requests) = 0 THEN << >> ELSE Tail(requests)

ConnectionPassed == Len(requests) > 0 /\ requests[1].returned = Bool(TRUE)

\* The records normalized from what the i-th endpoint returned.
Yield(i) ==
    IF Truthy(FetchAttempts[i].returned)
    THEN normalize_data(FetchAttempts[i].returned, endpoints[i][1], timestamp).records
    ELSE << >>

RECURSIVE Kept(_)
Kept(n) == IF n = 0 THEN << >> ELSE Kept(n - 1) \o Yield(n)

\* The mappings of a payload, and those of the first n endpoints, in order.
MappingsOf(payload) ==
    IF ~Truthy(payload) THEN << >>
    ELSE IF IsList(payload) THEN SelectSeq(payload.items, IsDict)
    ELSE IF IsDict(payload) THEN << payload >>
    ELSE << >>

RECURSIVE RunSources(_)
RunSources(n) ==
    IF n = 0 THEN << >> ELSE RunSources(n - 1) \o MappingsOf(FetchAttempts[n].returned)

\* The statement of C5 as the spec words it: every record of the run carries, as
\* market_open and market_schedule, the oracle result computed at the start of the
\* run, so that all records of the run agree on the two fields.
C5_OracleFieldsIdentical ==
    \A i \in 1..Len(all_normalized_data) :
        /\ Get(all_normalized_data[i], K_market_open) = Bool(oracle.open)
        /\ Get(all_normalized_data[i], K_market_schedule) = Str(oracle.description)

\* C5 (amended): every record of the run carries, as market_open and as
\* market_schedule, the oracle result for the run timestamp, except where the
\* record's own payload has a key whose cleaned name is that field: that field then
\* holds the payload's value.
C5_OracleFieldsUnlessShadowed ==
    ConnectionPassed =>
        LET sources == RunSources(Len(FetchAttempts))
        IN  /\ Len(sources) = Len(all_normalized_data)
            /\ \A i \in 1..Len(all_normalized_data) :
                 /\ Get(all_normalized_data[i], K_market_open)
                      = IF Cleans(sources[i].pairs, K_market_open) # {}
                        THEN LastValue(sources[i].pairs, K_market_open)
                        ELSE Bool(oracle.open)
                 /\ Get(all_normalized_data[i], K_market_schedule)
                      = IF Cleans(sources[i].pairs, K_market_schedule) # {}
                        THEN LastValue(sources[i].pairs, K_market_schedule)
                        ELSE Str(oracle.description)

\* A run started on Friday at 13:00:00 kept records of two endpoints, and the first
\* and the last record agree on the two fields with the oracle result of the run.
C5_Witness ==
    /\ pc = "returned"
    /\ Weekday(timestamp) = 4
    /\ Len(successful_endpoints) >= 2
    /\ Get(all_normalized_data[1], K_market_open) = Bool(TRUE)
    /\ Get(all_normalized_data[Len(all_normalized_data)], K_market_open) = Bool(TRUE)
    /\ Get(all_normalized_data[1], K_market_schedule) = Str(oracle.description)
    /\ Get(all_normalized_data[Len(all_normalized_data)], K_market_schedule)
         = Str(oracle.description)

\* C6: past the gate and the connection test, a failed fetch counts as no payload
\* and the run goes on: the endpoints are requested once each in configured order
\* whatever the earlier outcomes, all 8 by the time the run returns, and the
\* accumulated result is the records of every endpoint that yielded some, in order.
C6_FailuresSkipped ==
    ConnectionPassed =>
        /\ pc # "crashed"
        /\ Len(FetchAttempts) <= Len(endpoints)
        /\ \A i \in 1..Len(FetchAttempts) : FetchAttempts[i].url = endpoints[i][2]
        /\ pc \in { "returned", "exited" } => Len(FetchAttempts) = Len(endpoints)
        /\ all_normalized_data = Kept(Len(FetchAttempts))

\* The first endpoint failed, the second and the last yielded records, and all 8
\* endpoints were requested.
C6_Witness ==
    /\ pc = "returned"
    /\ Len(FetchAttempts) = Len(endpoints)
    /\ FetchAttempts[1].returned = None
    /\ successful_endpoints = << endpoints[2][1], endpoints[8][1] >>
    /\ Len(all_normalized_data) = 4

\* Some step of the run can be taken: the guards of the actions, one by one.
CanStep ==
    \/ pc = "main"
    \/ pc = "gate"
    \/ pc = "connect"
    \/ pc = "collect" /\ cursor <= Len(endpoints)
    \/ pc = "collect" /\ cursor > Len(endpoints) /\ Len(all_normalized_data) = 0
    \/ pc = "collect" /\ cursor > Len(endpoints) /\ Len(all_normalized_data) > 0
    \/ pc \in { "returned", "crashed" }

\* An upper bound on the steps a run still has to take.
StepsLeft ==
    CASE pc = "main" -> Len(endpoints) + 5
      [] pc = "gate" -> Len(endpoints) + 4
      [] pc = "connect" -> Len(endpoints) + 3
      [] pc = "collect" -> Len(endpoints) + 3 - cursor
      [] pc \in { "returned", "crashed" } -> 1
      [] pc = "exited" -> 0

\* C7: every run of main ends, and ends with exit status 0: the status at the exit
\* is 0, a run that has not exited can take a step, and every step brings the exit
\* nearer.
C7_ExitStatusZero ==
    /\ [](pc = "exited" => exit_status = 0)
    /\ [](pc # "exited" => CanStep)
    /\ [][StepsLeft' < StepsLeft]_vars

\* A run whose summary could not be written (the CSV is there, the result is None)
\* exited with status 0.
C7_Witness ==
    /\ pc = "exited"
    /\ Len(files) = 1
    /\ result = None
    /\ exit_status = 0

\* C9: outside a trading window collect_single_run returns None without a request
\* (no connection test, no fetch) and without a file; so a file is written only in
\* a run that started inside a trading window, and the market_open = True of a
\* summary is true of its run.
C9_ClosedMarketDoesNothing ==
    /\ pc \notin { "main", "gate" } /\ ~TradingWindow(timestamp) =>
          /\ requests = << >>
          /\ files = << >>
          /\ result = None
    /\ Len(files) > 0 => TradingWindow(timestamp)
    /\ Len(files) = 2 => (files[2].market_open <=> TradingWindow(timestamp))

\* A run started on Friday one microsecond after 13:00:00 returned None with no
\* request made and no file written.
C9_Witness ==
    /\ pc = "returned"
    /\ timestamp = At(5, 13, 0, 0, 1)
    /\ requests = << >>
    /\ files = << >>
    /\ result = None

\* The endpoints whose normalization yielded a record, as positions in endpoints.
Yielding == { i \in 1..Len(FetchAttempts) : Len(Yield(i)) > 0 }

NthYielding(j) ==
    CHOOSE i \in Yielding : Cardinality({ k \in Yielding : k <= i }) = j

RECURSIVE TotalYield(_)
TotalYield(n) == IF n = 0 THEN 0 ELSE TotalYield(n - 1) + Len(Yield(n))

\* C10: in a run that writes a summary, successful_endpoints lists in configured
\* order and without duplicates exactly the endpoints whose normalization yielded a
\* record, the keys of records_by_source are exactly those endpoints, each count is
\* the number of records normalized from that endpoint, and total_records is the sum.
C10_SummaryCountsBySource ==
    Len(files) = 2 =>
        /\ files[2].successful_endpoints
             = [ j \in 1..Cardinality(Yielding) |-> endpoints[NthYielding(j)][1] ]
        /\ DOMAIN files[2].records_by_source
             = { Str(endpoints[i][1]) : i \in Yielding }
        /\ \A i \in Yielding :
             files[2].records_by_source[Str(endpoints[i][1])] = Len(Yield(i))
        /\ files[2].total_records = TotalYield(Len(FetchAttempts))

====
